---- MODULE Spec2Model ----
(***************************************************************************)
(* Model of the student admission form server (app.js): the POST /submit   *)
(* route, its multer upload middleware, the Student collection and the     *)
(* mail transport.                                                         *)
(*                                                                         *)
(* Strings are sequences of one-character strings, so that the regular     *)
(* expressions, startsWith, path.extname and the Date parser are computed  *)
(* on characters.  A wall-clock instant is a record [hd, ms]: hd counts    *)
(* half days (43 200 000 ms) since the epoch and ms the milliseconds       *)
(* elapsed since the server started, which stay far below one half day:    *)
(* the server starts at midnight or at noon and runs for a few ms.         *)
(***************************************************************************)
EXTENDS Integers, Sequences, FiniteSets, TLC

(* ------------------------------ bounds --------------------------------- *)
NumReqs == 2
MaxMs == 1

Reqs == 1..NumReqs

(* ------------------------- JavaScript values --------------------------- *)
\* The value of a form field that the request does not carry.
Undefined == <<"undefined">>

Digits == {"0", "1", "2", "3", "4", "5", "6", "7", "8", "9"}

\* \d
IsDigit(c) == c \in Digits

\* \S : the only white space of the alphabet is the blank.
IsNonSpace(c) == c # " "

DigitVal(c) ==
  CASE c = "0" -> 0 [] c = "1" -> 1 [] c = "2" -> 2 [] c = "3" -> 3
    [] c = "4" -> 4 [] c = "5" -> 5 [] c = "6" -> 6 [] c = "7" -> 7
    [] c = "8" -> 8 [] c = "9" -> 9

\* !x for a form field: undefined and the empty string are falsy.
Falsy(v) == v = Undefined \/ v = <<>>

\* String.prototype.startsWith
StartsWith(s, p) == Len(s) >= Len(p) /\ SubSeq(s, 1, Len(p)) = p

\* path.extname: from the last dot to the end; empty when there is no dot or
\* the only dot is the first character.
ExtName(s) ==
  LET dots == {i \in 1..Len(s) : s[i] = "."}
      last == CHOOSE i \in dots : \A j \in dots : j <= i
  IN  IF dots = {} \/ last = 1 THEN <<>> ELSE SubSeq(s, last, Len(s))

(* ------------------------------ dates ---------------------------------- *)
\* Days from 1970-01-01 to the proleptic Gregorian date y-m-d (MakeDay).
DaysFromCivil(y, m, d) ==
  LET yy  == IF m <= 2 THEN y - 1 ELSE y
      era == yy \div 400
      yoe == yy - era * 400
      mp  == IF m > 2 THEN m - 3 ELSE m + 9
      doy == (153 * mp + 2) \div 5 + d - 1
      doe == yoe * 365 + yoe \div 4 - yoe \div 100 + doy
  IN  era * 146097 + doe - 719468

\* The Invalid Date, whose time value is NaN.
InvalidDate == [nan |-> TRUE, hd |-> 0]

\* new Date(dob) for a string: the date-only ISO form YYYY-MM-DD is UTC
\* midnight of that day; any other text of the alphabet is the Invalid Date,
\* and so is undefined.
ParseDate(s) ==
  IF /\ s # Undefined
     /\ Len(s) = 10
     /\ s[5] = "-" /\ s[8] = "-"
     /\ \A i \in {1, 2, 3, 4, 6, 7, 9, 10} : IsDigit(s[i])
  THEN LET y == 1000 * DigitVal(s[1]) + 100 * DigitVal(s[2])
                + 10 * DigitVal(s[3]) + DigitVal(s[4])
           m == 10 * DigitVal(s[6]) + DigitVal(s[7])
           d == 10 * DigitVal(s[9]) + DigitVal(s[10])
       IN  IF m \in 1..12 /\ d \in 1..31
           THEN [nan |-> FALSE, hd |-> 2 * DaysFromCivil(y, m, d)]
           ELSE InvalidDate
  ELSE InvalidDate

\* 365.25 days, the divisor of the age, in quarter days.
QuarterDaysPerYear == 1461

\* The age limit of the age check.
MinAge == 18

\* (t - birthDate) in whole quarter days; the ms part of t is below one quarter
\* day and a birth date is a whole day, so the comparison with a whole number
\* of years of 1461 quarter days is decided by the half days alone.
ElapsedQuarterDays(t, birthDate) == 2 * (t.hd - birthDate.hd)

\* The age check with a year of 365 days.
AgeBelowLimitShortYear(t, birthDate) ==
  /\ ~birthDate.nan
  /\ ElapsedQuarterDays(t, birthDate) < MinAge * (QuarterDaysPerYear - 1)

\* age < 18, with age = (new Date() - birthDate) / (1000*60*60*24*365.25);
\* every comparison with NaN is false.
AgeBelowLimit(t, birthDate) ==
  /\ ~birthDate.nan
  /\ ElapsedQuarterDays(t, birthDate) < MinAge * QuarterDaysPerYear

(* --------------------------- the two patterns -------------------------- *)
\* /\S+@\S+\.\S+/.test(email): somewhere in the text, a non-blank before an
\* "@", then a non-empty run of non-blanks, a dot and one more non-blank.
EmailTest(s) ==
  \E a \in 1..Len(s) : \E d \in 1..Len(s) :
    /\ s[a] = "@"
    /\ a >= 2 /\ IsNonSpace(s[a - 1])
    /\ d >= a + 2
    /\ \A i \in (a + 1)..(d - 1) : IsNonSpace(s[i])
    /\ s[d] = "."
    /\ d + 1 <= Len(s) /\ IsNonSpace(s[d + 1])

\* /^\d{3}-\d{3}-\d{4}$/.test(phone)
PhoneTest(s) ==
  /\ Len(s) = 12
  /\ s[4] = "-" /\ s[8] = "-"
  /\ \A i \in {1, 2, 3, 5, 6, 7, 9, 10, 11, 12} : IsDigit(s[i])

(* ------------------------------ validation ----------------------------- *)
On == <<"o", "n">>

RequiredFields ==
  {"fullName", "dob", "gender", "email", "phone", "address", "result",
   "classApplying"}

\* The presence check of the handler.
MissingRequired(b) ==
  \/ \E f \in RequiredFields : Falsy(b[f])
  \/ b.agreed # On

\* The checks without the phone check.
ValidationErrorNoPhone(b, t) ==
  IF MissingRequired(b) THEN "Missing required fields"
  ELSE IF AgeBelowLimit(t, ParseDate(b.dob)) THEN "Must be at least 18 years old"
  ELSE IF ~EmailTest(b.email) THEN "Invalid email format"
  ELSE ""

\* The checks with the phone check ahead of the email check.
ValidationErrorPhoneFirst(b, t) ==
  IF MissingRequired(b) THEN "Missing required fields"
  ELSE IF AgeBelowLimit(t, ParseDate(b.dob)) THEN "Must be at least 18 years old"
  ELSE IF ~PhoneTest(b.phone) THEN "Invalid phone format"
  ELSE IF ~EmailTest(b.email) THEN "Invalid email format"
  ELSE ""

\* The handler's checks in the order of the code; "" when all of them pass.
ValidationError(b, t) ==
  IF MissingRequired(b) THEN "Missing required fields"
  ELSE IF AgeBelowLimit(t, ParseDate(b.dob)) THEN "Must be at least 18 years old"
  ELSE IF ~EmailTest(b.email) THEN "Invalid email format"
  ELSE IF ~PhoneTest(b.phone) THEN "Invalid phone format"
  ELSE ""

\* A filter that lets every file through.
FileFilterAll(file) == TRUE

\* upload.fileFilter
FileFilter(file) == StartsWith(file.mimetype, <<"i", "m", "a", "g", "e", "/">>)

\* storage.filename: Date.now() + path.extname(originalname).  The decimal
\* timestamp followed by an extension that is empty or starts with a dot
\* determines both parts, so the name is kept as the pair.
FileName(t, file) == [ts |-> t, ext |-> ExtName(file.originalname)]

\* new Student({...}): the document built from the validated fields.
NewStudent(r, b, reqFile) ==
  [id |-> r,
   fullName |-> b.fullName, dob |-> ParseDate(b.dob), gender |-> b.gender,
   email |-> b.email, phone |-> b.phone, address |-> b.address,
   previousSchool |-> b.previousSchool, result |-> b.result,
   classApplying |-> b.classApplying,
   photo |-> IF reqFile # <<>> THEN <<reqFile[1].path>> ELSE <<>>,
   agreed |-> TRUE]

\* studentSchema, validated by save(): the required paths are present and
\* non-empty and dob casts to a Date (the Invalid Date does not).
SchemaValid(doc) ==
  /\ \A f \in RequiredFields \ {"dob"} : ~Falsy(doc[f])
  /\ ~doc.dob.nan
  /\ doc.agreed \in BOOLEAN

NA == <<"N", "/", "A">>

\* The mail without its attachment.
MailOptionsNoAttachment(r, b, reqFile) ==
  [id |-> r,
   to |-> "admin",
   fullName |-> b.fullName, dob |-> b.dob, gender |-> b.gender,
   email |-> b.email, phone |-> b.phone, address |-> b.address,
   previousSchool |-> IF Falsy(b.previousSchool) THEN NA ELSE b.previousSchool,
   result |-> b.result, classApplying |-> b.classApplying,
   photo |-> IF reqFile # <<>> THEN "Attached" ELSE "None",
   attachments |-> <<>>]

\* mailOptions: the text lines that depend on the request, and the attachments.
MailOptions(r, b, reqFile) ==
  [id |-> r,
   to |-> "admin",
   fullName |-> b.fullName, dob |-> b.dob, gender |-> b.gender,
   email |-> b.email, phone |-> b.phone, address |-> b.address,
   previousSchool |-> IF Falsy(b.previousSchool) THEN NA ELSE b.previousSchool,
   result |-> b.result, classApplying |-> b.classApplying,
   photo |-> IF reqFile # <<>> THEN "Attached" ELSE "None",
   attachments |-> IF reqFile # <<>> THEN <<reqFile[1].path>> ELSE <<>>]

(* ------------------------------- inputs -------------------------------- *)
\* The server starts on this day.
StartDay == ParseDate(<<"2", "0", "2", "6", "-", "1", "1", "-", "0", "2">>)

\* The body of the worked example of the form: every rule passes.
GoodBody ==
  [fullName |-> <<"A", " ", "B">>, dob |-> <<"2", "0", "0", "0", "-", "0", "1", "-", "0", "1">>, gender |-> <<"F">>,
   email |-> <<"a", "@", "b", ".", "c", "o", "m">>, phone |-> <<"1", "2", "3", "-", "4", "5", "6", "-", "7", "8", "9", "0">>, address |-> <<"X">>,
   previousSchool |-> Undefined, result |-> <<"P", "a", "s", "s">>,
   classApplying |-> <<"1", "0">>, agreed |-> On]

\* Born 18 calendar years before the start day: 6574 days, half a day short
\* of 18 times 365.25 days at midnight, and exactly that at noon.
DobBoundary == <<"2", "0", "0", "8", "-", "1", "1", "-", "0", "2">>
DobMinor == <<"2", "0", "1", "0", "-", "0", "5", "-", "0", "5">>
DobFuture == <<"2", "0", "3", "0", "-", "0", "1", "-", "0", "1">>
DobText == <<"a", "b", "c">>

DobSamples == {Undefined, GoodBody.dob, DobBoundary, DobMinor, DobFuture, DobText}

EmailSamples ==
  {<<>>, GoodBody.email, <<"a", "b", ".", "c", "o", "m">>, <<"a", "@", "b", "c", "o", "m">>, <<"a", " ", "@", "b", ".", "c">>, <<"x", " ", "a", "@", "b", ".", "c", " ", "y">>, <<"@", "b", ".", "c">>}

PhoneSamples ==
  {Undefined, GoodBody.phone, <<"1", "2", "3", "4", "5", "6", "7", "8", "9", "0">>, <<"1", "2", "3", "-", "4", "5", "6", "-", "7", "8", "9">>, <<"1", "2", "3", "-", "4", "5", "6", "-", "7", "8", "9", "0", "1">>, <<"1", "2", "a", "-", "4", "5", "6", "-", "7", "8", "9", "0">>, <<"1", "2", "3", " ", "4", "5", "6", " ", "7", "8", "9", "0">>}

PngPart == [mimetype |-> <<"i", "m", "a", "g", "e", "/", "p", "n", "g">>, originalname |-> <<"a", ".", "p", "n", "g">>]
JpegPart == [mimetype |-> <<"i", "m", "a", "g", "e", "/", "j", "p", "e", "g">>, originalname |-> <<"b", ".", "j", "p", "g">>]
PdfPart == [mimetype |-> <<"a", "p", "p", "l", "i", "c", "a", "t", "i", "o", "n", "/", "p", "d", "f">>, originalname |-> <<"c", ".", "p", "d", "f">>]

\* The photo part of a request: none, or one file.
PartSamples == {<<>>, <<PngPart>>, <<JpegPart>>, <<PdfPart>>}

\* The requests of the concurrent specification: one per outcome of the
\* pipeline, with and without a photo.
Inputs ==
  {[body |-> GoodBody, part |-> <<>>],
   [body |-> [GoodBody EXCEPT !.previousSchool = <<"S">>], part |-> <<PngPart>>],
   [body |-> GoodBody, part |-> <<PdfPart>>],
   [body |-> [GoodBody EXCEPT !.agreed = Undefined], part |-> <<PngPart>>],
   [body |-> [GoodBody EXCEPT !.dob = DobBoundary], part |-> <<>>],
   [body |-> [GoodBody EXCEPT !.dob = DobText], part |-> <<>>],
   [body |-> [GoodBody EXCEPT !.email = <<"a", "@", "b", "c", "o", "m">>], part |-> <<>>],
   [body |-> [GoodBody EXCEPT !.phone = <<"1", "2", "3", "4", "5", "6", "7", "8", "9", "0">>], part |-> <<>>]}

\* The requests of the single-request specification: every combination of the
\* samples of the fields the four rules read.
WideInputs ==
  {[body |-> [GoodBody EXCEPT !.fullName = fn, !.dob = d, !.email = e,
                              !.phone = p, !.agreed = ag,
                              !.previousSchool = ps],
    part |-> f] :
     fn \in {Undefined, <<>>, GoodBody.fullName}, d \in DobSamples,
     e \in EmailSamples, p \in PhoneSamples,
     ag \in {Undefined, <<"o", "f", "f">>, On},
     ps \in {Undefined, <<"S">>}, f \in PartSamples}

(* ------------------------------- state --------------------------------- *)
VARIABLES
  now,        \* the wall clock, [hd, ms]
  pc,         \* where each request is in the pipeline
  req,        \* each request's form fields and photo part
  reqFile,    \* req.file: empty, or the file multer stored
  uploads,    \* the uploads directory: [path, data], one entry per path
  students,   \* the Student collection
  sent,       \* the messages the transport delivered
  res,        \* the responses sent to each request
  saveCalls,  \* calls of newStudent.save() per request
  mailCalls   \* calls of transporter.sendMail() per request

vars ==
  <<now, pc, req, reqFile, uploads, students, sent, res, saveCalls, mailCalls>>

NoRequest ==
  [body |-> [f \in DOMAIN GoodBody |-> Undefined], part |-> <<>>]

Json(status, key, text) == [status |-> status, key |-> key, text |-> text]

\* A write to a path of the uploads directory replaces what the path held.
WriteFile(dir, path, data) ==
  {f \in dir : f.path # path} \cup {[path |-> path, data |-> data]}

Init ==
  /\ now \in {[hd |-> StartDay.hd + h, ms |-> 0] : h \in {0, 1}}
  /\ pc = [r \in Reqs |-> "idle"]
  /\ req = [r \in Reqs |-> NoRequest]
  /\ reqFile = [r \in Reqs |-> <<>>]
  /\ uploads = {}
  /\ students = {}
  /\ sent = {}
  /\ res = [r \in Reqs |-> <<>>]
  /\ saveCalls = [r \in Reqs |-> 0]
  /\ mailCalls = [r \in Reqs |-> 0]

(* ------------------------------ actions -------------------------------- *)
\* A POST /submit request with one of the given inputs goes through
\* upload.single('photo'): the filter runs before the storage engine; a
\* refused file ends the request in the default error handler, an accepted
\* one is written under the name storage.filename gives it at this instant.
\* The bytes of request r's photo are r.
MulterSingle(r, inputs) ==
  /\ pc[r] = "idle"
  /\ \E i \in inputs :
       /\ req' = [req EXCEPT ![r] = i]
       /\ IF i.part = <<>>
          THEN /\ pc' = [pc EXCEPT ![r] = "handler"]
               /\ UNCHANGED <<reqFile, uploads, res>>
          ELSE IF FileFilter(i.part[1])
          THEN /\ reqFile' = [reqFile EXCEPT ![r] =
                                <<[path |-> FileName(now, i.part[1])]>>]
               /\ uploads' = WriteFile(uploads, FileName(now, i.part[1]), r)
               /\ pc' = [pc EXCEPT ![r] = "handler"]
               /\ UNCHANGED res
          ELSE /\ res' = [res EXCEPT ![r] =
                            Append(@, Json(500, "html", "Only images are allowed"))]
               /\ pc' = [pc EXCEPT ![r] = "done"]
               /\ UNCHANGED <<reqFile, uploads>>
  /\ UNCHANGED <<now, students, sent, saveCalls, mailCalls>>

\* The handler body up to its first await: the four checks, then
\* new Student(...) and the call of save().
SubmitHandler(r) ==
  /\ pc[r] = "handler"
  /\ LET err == ValidationError(req[r].body, now)
     IN  IF err # ""
         THEN /\ res' = [res EXCEPT ![r] = Append(@, Json(400, "error", err))]
              /\ pc' = [pc EXCEPT ![r] = "done"]
              /\ UNCHANGED saveCalls
         ELSE /\ saveCalls' = [saveCalls EXCEPT ![r] = @ + 1]
              /\ pc' = [pc EXCEPT ![r] = "saving"]
              /\ UNCHANGED res
  /\ UNCHANGED <<now, req, reqFile, uploads, students, sent, mailCalls>>

\* save() resolves: the document is in the collection, and the handler goes
\* on to compose the mail and call sendMail().
SaveResolve(r) ==
  /\ pc[r] = "saving"
  /\ SchemaValid(NewStudent(r, req[r].body, reqFile[r]))
  /\ students' = students \cup {NewStudent(r, req[r].body, reqFile[r])}
  /\ mailCalls' = [mailCalls EXCEPT ![r] = @ + 1]
  /\ pc' = [pc EXCEPT ![r] = "mailing"]
  /\ UNCHANGED <<now, req, reqFile, uploads, sent, res, saveCalls>>

\* A rejected save() whose error is dropped: the handler goes on to the mail.
SaveRejectIgnored(r) ==
  /\ pc[r] = "saving"
  /\ mailCalls' = [mailCalls EXCEPT ![r] = @ + 1]
  /\ pc' = [pc EXCEPT ![r] = "mailing"]
  /\ UNCHANGED <<now, req, reqFile, uploads, students, sent, res, saveCalls>>

\* save() rejects (schema validation or the database): the catch block.
SaveReject(r) ==
  /\ pc[r] = "saving"
  /\ res' = [res EXCEPT ![r] = Append(@, Json(500, "error", "Server error"))]
  /\ pc' = [pc EXCEPT ![r] = "done"]
  /\ UNCHANGED <<now, req, reqFile, uploads, students, sent, saveCalls,
                 mailCalls>>

\* sendMail() resolves: the message is delivered and the handler answers 200.
SendMailResolve(r) ==
  /\ pc[r] = "mailing"
  /\ sent' = sent \cup {MailOptions(r, req[r].body, reqFile[r])}
  /\ res' = [res EXCEPT ![r] =
               Append(@, Json(200, "message", "Submission successful"))]
  /\ pc' = [pc EXCEPT ![r] = "done"]
  /\ UNCHANGED <<now, req, reqFile, uploads, students, saveCalls, mailCalls>>

\* A catch block that deletes the record before it answers.
SendMailRejectRollback(r) ==
  /\ pc[r] = "mailing"
  /\ students' = {d \in students : d.id # r}
  /\ res' = [res EXCEPT ![r] = Append(@, Json(500, "error", "Server error"))]
  /\ pc' = [pc EXCEPT ![r] = "done"]
  /\ UNCHANGED <<now, req, reqFile, uploads, sent, saveCalls, mailCalls>>

\* A rejected sendMail() whose error is dropped: the handler answers 200.
SendMailRejectSwallowed(r) ==
  /\ pc[r] = "mailing"
  /\ res' = [res EXCEPT ![r] =
               Append(@, Json(200, "message", "Submission successful"))]
  /\ pc' = [pc EXCEPT ![r] = "done"]
  /\ UNCHANGED <<now, req, reqFile, uploads, students, sent, saveCalls,
                 mailCalls>>

\* sendMail() rejects: the catch block.
SendMailReject(r) ==
  /\ pc[r] = "mailing"
  /\ res' = [res EXCEPT ![r] = Append(@, Json(500, "error", "Server error"))]
  /\ pc' = [pc EXCEPT ![r] = "done"]
  /\ UNCHANGED <<now, req, reqFile, uploads, students, sent, saveCalls,
                 mailCalls>>

\* One millisecond passes.
TickMs ==
  /\ now.ms < MaxMs
  /\ now' = [now EXCEPT !.ms = @ + 1]
  /\ UNCHANGED <<pc, req, reqFile, uploads, students, sent, res, saveCalls,
                 mailCalls>>

\* What a request does once its body is parsed.
Step(r) ==
  \/ SubmitHandler(r)
  \/ SaveResolve(r)
  \/ SaveReject(r)
  \/ SendMailResolve(r)
  \/ SendMailReject(r)

\* Any number of requests in flight at once.
Next ==
  \/ \E r \in Reqs : MulterSingle(r, Inputs)
  \/ \E r \in Reqs : Step(r)
  \/ TickMs

Spec == Init /\ [][Next]_vars

\* One request, over every combination of the field samples.
NextOne ==
  \/ MulterSingle(1, WideInputs)
  \/ Step(1)
  \/ TickMs

SpecOne == Init /\ [][NextOne]_vars

(* ======================= properties of the pipeline ==================== *)
Done(r) == pc[r] = "done"
Arrived(r) == pc[r] # "idle"
SavedFor(r) == \E d \in students : d.id = r
MailedFor(r) == \E m \in sent : m.id = r
StoredBytesOf(r) == {f \in uploads : f.data = r}

\* The request carries a file whose MIME type does not begin with "image/".
Refused(r) ==
  /\ req[r].part # <<>>
  /\ LET mime == req[r].part[1].mimetype
     IN  Len(mime) < 6 \/ SubSeq(mime, 1, 6) # <<"i", "m", "a", "g", "e", "/">>

\* The four rules, each read on its own.
FailsPresence(b) == MissingRequired(b)
FailsAge(b) == AgeBelowLimit(now, ParseDate(b.dob))
FailsEmail(b) == ~EmailTest(b.email)
FailsPhone(b) == ~PhoneTest(b.phone)
FailsSomeRule(b) ==
  FailsPresence(b) \/ FailsAge(b) \/ FailsEmail(b) \/ FailsPhone(b)

Reasons ==
  {"Missing required fields", "Must be at least 18 years old",
   "Invalid email format", "Invalid phone format"}

ServerError == Json(500, "error", "Server error")
Success == Json(200, "message", "Submission successful")

\* C1, as stated: every request that fails one of the four rules is answered
\* 400 with one of the four reasons, and has no record and no mail.
C1_AsStated ==
  \A r \in Reqs :
    (Done(r) /\ FailsSomeRule(req[r].body)) =>
      /\ Len(res[r]) = 1
      /\ res[r][1].status = 400 /\ res[r][1].text \in Reasons
      /\ ~SavedFor(r) /\ ~MailedFor(r)

\* C1, amended: a request that fails one of the four rules never has a record
\* or a mail, save() and sendMail() are never called for it, and when the
\* upload middleware hands it to the handler its one response is a 400 with
\* one of the four reasons.
C1_InvalidRejected ==
  \A r \in Reqs :
    (Arrived(r) /\ FailsSomeRule(req[r].body)) =>
      /\ ~SavedFor(r) /\ ~MailedFor(r)
      /\ saveCalls[r] = 0 /\ mailCalls[r] = 0
      /\ (Done(r) /\ ~Refused(r)) =>
           /\ Len(res[r]) = 1
           /\ res[r][1].status = 400 /\ res[r][1].key = "error"
           /\ res[r][1].text \in Reasons

C1_Witness ==
  \E r \in Reqs :
    /\ Done(r) /\ req[r].part = <<PngPart>>
    /\ ~FailsPresence(req[r].body) /\ ~FailsAge(req[r].body)
    /\ ~FailsEmail(req[r].body) /\ FailsPhone(req[r].body)
    /\ res[r] = <<Json(400, "error", "Invalid phone format")>>

\* C2: sendMail() is called for a request only once its record is in the
\* collection; a request whose save() failed is answered 500 and sendMail()
\* is never called for it.
C2_MailOnlyAfterSave ==
  \A r \in Reqs :
    /\ mailCalls[r] > 0 => (saveCalls[r] > 0 /\ SavedFor(r))
    /\ MailedFor(r) => SavedFor(r)
    /\ (Done(r) /\ saveCalls[r] > 0 /\ ~SavedFor(r)) =>
         /\ res[r] = <<ServerError>>
         /\ mailCalls[r] = 0 /\ ~MailedFor(r)

C2_Witness ==
  \E r \in Reqs :
    /\ Done(r) /\ saveCalls[r] = 1 /\ ~SavedFor(r)
    /\ ~FailsSomeRule(req[r].body) /\ ~ParseDate(req[r].body.dob).nan
    /\ res[r] = <<ServerError>>

\* C3: a request whose record was saved and whose sendMail() failed is
\* answered with the generic 500, and its record is still in the collection.
C3_MailFailureKeepsRecord ==
  \A r \in Reqs :
    (Done(r) /\ mailCalls[r] > 0 /\ ~MailedFor(r)) =>
      /\ res[r] = <<ServerError>>
      /\ \E d \in students :
           d = NewStudent(r, req[r].body, reqFile[r])

C3_Witness ==
  \E r \in Reqs :
    /\ Done(r) /\ mailCalls[r] = 1 /\ ~MailedFor(r) /\ SavedFor(r)
    /\ res[r] = <<ServerError>>

\* C4: a request has no response until it is done and exactly one then; the
\* response is the 200 success message exactly when the record was saved and
\* the mail delivered, and a 400 or 500 otherwise; save() and sendMail() are
\* called at most once per request.
C4_OneTerminalResponse ==
  \A r \in Reqs :
    /\ saveCalls[r] <= 1 /\ mailCalls[r] <= 1
    /\ ~Done(r) => res[r] = <<>>
    /\ Done(r) =>
         /\ Len(res[r]) = 1
         /\ res[r][1] = Success <=> (SavedFor(r) /\ MailedFor(r))
         /\ res[r][1] # Success => res[r][1].status \in {400, 500}

C4_Witness ==
  \E r1 \in Reqs : \E r2 \in Reqs :
    /\ Done(r1) /\ res[r1] = <<Success>> /\ SavedFor(r1) /\ MailedFor(r1)
    /\ Done(r2) /\ res[r2] = <<ServerError>> /\ SavedFor(r2) /\ ~MailedFor(r2)

\* C5: a request whose file is not an image is finished by the upload
\* middleware: the handler never runs for it (no 400, no save, no mail), it has
\* no record, and no file of it is in the uploads directory.
C5_NonImageRefused ==
  \A r \in Reqs :
    (Arrived(r) /\ Refused(r)) =>
      /\ Done(r)
      /\ res[r] = <<Json(500, "html", "Only images are allowed")>>
      /\ saveCalls[r] = 0 /\ mailCalls[r] = 0
      /\ ~SavedFor(r) /\ ~MailedFor(r)
      /\ reqFile[r] = <<>>
      /\ StoredBytesOf(r) = {}

C5_Witness ==
  \E r \in Reqs :
    /\ Done(r) /\ req[r].part = <<PdfPart>>
    /\ ~FailsSomeRule(req[r].body)
    /\ StoredBytesOf(r) = {}

\* C6: a request answered 400 leaves no record, no mail and no file in the
\* uploads directory.
C6_ValidationFailureNoSideEffects ==
  \A r \in Reqs :
    (Done(r) /\ res[r][1].status = 400) =>
      /\ ~SavedFor(r) /\ ~MailedFor(r)
      /\ StoredBytesOf(r) = {}
      /\ \A f \in uploads : reqFile[r] = <<>> \/ f.path # reqFile[r][1].path

\* C7: every record of the collection has all required fields non-empty, a
\* valid date of birth at least 18 years back, an email and a phone that pass
\* their patterns, and agreed true.
C7_RecordsValid ==
  \A d \in students :
    /\ \A f \in RequiredFields \ {"dob"} : d[f] # Undefined /\ Len(d[f]) > 0
    /\ ~d.dob.nan
    /\ ElapsedQuarterDays(now, d.dob) >= MinAge * QuarterDaysPerYear
    /\ EmailTest(d.email)
    /\ PhoneTest(d.phone)
    /\ d.agreed = TRUE

C7_Witness ==
  /\ \E d \in students : d.dob = ParseDate(DobBoundary)
  /\ \E r \in Reqs :
       /\ Done(r) /\ req[r].body.dob = DobText
       /\ saveCalls[r] = 1 /\ ~SavedFor(r)

\* C8: for a saved request without a photo the record has no photo, and the
\* mail, once delivered, says "None" and has no attachment; with a photo the
\* record's photo is the path multer stored it under, and the mail says
\* "Attached" and has that path as its only attachment.
C8_PhotoAgrees ==
  \A r \in Reqs :
    /\ \A d \in students : d.id = r =>
         IF req[r].part = <<>>
         THEN d.photo = <<>>
         ELSE /\ reqFile[r] # <<>>
              /\ d.photo = <<reqFile[r][1].path>>
              /\ reqFile[r][1].path = FileName(reqFile[r][1].path.ts, req[r].part[1])
              /\ \E f \in uploads : f.path = reqFile[r][1].path
    /\ \A m \in sent : m.id = r =>
         IF req[r].part = <<>>
         THEN m.photo = "None" /\ m.attachments = <<>>
         ELSE /\ m.photo = "Attached"
              /\ m.attachments = <<reqFile[r][1].path>>
              /\ \E d \in students : d.id = r /\ d.photo = m.attachments

C8_Witness ==
  \E r1 \in Reqs : \E r2 \in Reqs :
    /\ req[r1].part = <<>> /\ MailedFor(r1) /\ SavedFor(r1)
    /\ req[r2].part = <<PngPart>> /\ MailedFor(r2) /\ SavedFor(r2)

\* C9: the reason of a 400 is that of the first rule, in the order presence,
\* age, email, phone, that the request fails.
C9_FirstFailingRule ==
  \A r \in Reqs :
    (Done(r) /\ Len(res[r]) = 1 /\ res[r][1].status = 400) =>
      LET b == req[r].body
          reason == res[r][1].text
      IN  /\ FailsSomeRule(b)
          /\ FailsPresence(b) => reason = "Missing required fields"
          /\ (~FailsPresence(b) /\ FailsAge(b)) =>
               reason = "Must be at least 18 years old"
          /\ (~FailsPresence(b) /\ ~FailsAge(b) /\ FailsEmail(b)) =>
               reason = "Invalid email format"
          /\ (~FailsPresence(b) /\ ~FailsAge(b) /\ ~FailsEmail(b)) =>
               reason = "Invalid phone format"

C9_Witness ==
  \E r \in Reqs :
    /\ Done(r)
    /\ ~FailsPresence(req[r].body) /\ ~FailsAge(req[r].body)
    /\ FailsEmail(req[r].body) /\ FailsPhone(req[r].body)
    /\ res[r] = <<Json(400, "error", "Invalid email format")>>

\* C10: two requests with photos never get the same stored file name, and the
\* file a record references holds the photo of that record's request.
C10_RequestsIndependent ==
  /\ \A r1 \in Reqs : \A r2 \in Reqs :
       (r1 # r2 /\ reqFile[r1] # <<>> /\ reqFile[r2] # <<>>) =>
         reqFile[r1][1].path # reqFile[r2][1].path
  /\ \A d \in students : \A f \in uploads :
       d.photo = <<f.path>> => f.data = d.id

====
